---- MODULE Spec2Model ----
(***************************************************************************)
(* Model of package mhash (src/mhash/mhash.go): the extensible-hash lookup *)
(* Hash.Get, its hash-prefix arithmetic, and the two collaborators it      *)
(* drives: the bucket item accessor (item.Item.Get) and the session        *)
(* (AddNextCall / Execute).                                                *)
(*                                                                         *)
(* A uint64 is kept as its 8 big-endian bytes; the shifts and masks of the *)
(* source are computed byte by byte with the carry between neighbours, so  *)
(* bits shifted past either end are lost as in the 64-bit word.            *)
(*                                                                         *)
(* The content of the backend is input.  A bucket is fixed part by part    *)
(* the first time the code reads that part (fetch error at the round trip, *)
(* one bit of the Bitset at GetBit, the Items at the range loop) and never *)
(* changes afterwards: this core only reads buckets.                       *)
(*                                                                         *)
(* Spec is the program: Get calls and the resolution of their handles on   *)
(* one session.  PureSpec applies the pure parts on their own (the prefix  *)
(* arithmetic, BucketKey.String, one run of nextCallFn on a received       *)
(* bucket) to inputs drawn from bounded sets.                              *)
(***************************************************************************)
EXTENDS Integers, Sequences, FiniteSets, TLC

(* ------------------------------ bounds --------------------------------- *)
\* number of Get calls made on the one Hash / session
MaxCalls == 2
\* longest Items list of a bucket
MaxItems == 1

(* ----------------------------- constants ------------------------------- *)
maxDeepLevels == 5

ErrNil == "nil"
ErrHashTooDeep == "mhash: hash go too deep"
\* an error of the item accessor (network, unmarshal, filler)
ErrBackend == "backend"

(* --------------------------- uint64 arithmetic ------------------------- *)
\* A uint64 is kept as its 8 big-endian bytes.
\* bit p (0: least significant) of a natural number below 2^31
NatBit(n, p) == (n \div (2 ^ p)) % 2

\* byte j of a uint64, most significant first; 0 outside 1..8
ByteOf(x, j) == IF j \in 1..8 THEN x[j] ELSE 0

MaxUint64 == [j \in 1..8 |-> 255]

\* x << n on uint64 (n >= 0; a shift count of 64 or more yields 0): byte j of
\* the result is made of the low bits of byte j + n/8 and the high bits of the
\* byte after it
Shl(x, n) ==
    LET q == n \div 8
        r == n % 8
    IN  [j \in 1..8 |->
            ((ByteOf(x, j + q) * (2 ^ r)) % 256)
            + (ByteOf(x, j + q + 1) \div (2 ^ (8 - r)))]

\* x >> n on uint64 (n >= 0)
Shr(x, n) ==
    LET q == n \div 8
        r == n % 8
    IN  [j \in 1..8 |->
            (ByteOf(x, j - q) \div (2 ^ r))
            + ((ByteOf(x, j - q - 1) * (2 ^ (8 - r))) % 256)]

\* a & b on bytes
And8(a, b) ==
    IF b = 255 THEN a
    ELSE IF b = 0 THEN 0
    ELSE 128 * NatBit(a, 7) * NatBit(b, 7) + 64 * NatBit(a, 6) * NatBit(b, 6)
         + 32 * NatBit(a, 5) * NatBit(b, 5) + 16 * NatBit(a, 4) * NatBit(b, 4)
         + 8 * NatBit(a, 3) * NatBit(b, 3) + 4 * NatBit(a, 2) * NatBit(b, 2)
         + 2 * NatBit(a, 1) * NatBit(b, 1) + NatBit(a, 0) * NatBit(b, 0)

\* x & y on uint64
And64(x, y) == [j \in 1..8 |-> And8(x[j], y[j])]

\* the uint64 of a natural number below 2^31 (used for the literal 0xff)
U64(n) ==
    <<0, 0, 0, 0, (n \div 16777216) % 256, (n \div 65536) % 256,
      (n \div 256) % 256, n % 256>>

\* int(x) of a uint64 below 2^31
IntOf(x) == 16777216 * x[5] + 65536 * x[6] + 256 * x[7] + x[8]

\* what stands for the run-time panic of a shift by a negative count: the
\* function returns no value
ShiftPanic == -1

\* hash & (math.MaxUint64 << (64 - 8*hashLen))
computeHashAtLevel_unmasked(hash, hashLen) ==
    IF hashLen = 0 THEN hash
    ELSE And64(hash, Shl(MaxUint64, 64 - 8 * hashLen))

computeHashAtLevel(hash, hashLen) ==
    IF 64 - 8 * hashLen < 0 THEN ShiftPanic
    ELSE And64(hash, Shl(MaxUint64, 64 - 8 * hashLen))

\* int((hash >> (64 - 8 - currentHashLen*8)) & 0xff)
computeBitOffsetAtNextLevel_first(hash, currentHashLen) ==
    IntOf(And64(Shr(hash, 64 - 8), U64(255)))

computeBitOffsetAtNextLevel_next(hash, currentHashLen) ==
    IntOf(And64(Shr(hash, 64 - 8 - (currentHashLen + 1) * 8), U64(255)))

computeBitOffsetAtNextLevel(hash, currentHashLen) ==
    IF 64 - 8 - currentHashLen * 8 < 0 THEN ShiftPanic
    ELSE IntOf(And64(Shr(hash, 64 - 8 - currentHashLen * 8), U64(255)))

(* ------------------------------ inputs --------------------------------- *)
Roots == {"r1"}

\* query keys: KA and KB are different keys with the same digest, KC shares
\* the first three digest bytes with them and has zero bytes after these
Keys == {"KA", "KB", "KC"}

\* Key.Hash()
KeyHash(k) ==
    IF k = "KC" THEN <<1, 2, 3, 0, 0, 0, 0, 0>>
    ELSE <<1, 2, 3, 4, 5, 6, 7, 8>>

\* stored items: a key and a payload
Items == {[key |-> "KA", val |-> 1], [key |-> "KA", val |-> 2],
          [key |-> "KB", val |-> 1]}

\* the zero value of an item (Null.Data when Valid is false)
NoItem == [key |-> "", val |-> 0]

\* the item-to-key projector given to New
getKey(v) == v.key

ItemSeqs == UNION {[1..n -> Items] : n \in 0..MaxItems}

(* ------------------------------- state --------------------------------- *)
VARIABLES
    calls,      \* one record per Get call: the variables its closures capture
    nextCalls,  \* session: continuations added by AddNextCall, in order
    running,    \* session: continuations of the round Execute is running
    executing,  \* TRUE while a handle is inside sess.Execute()
    resolver,   \* the call whose handle is being resolved (0: none)
    pending,    \* item accessor: BucketKeys requested and not yet sent
    store,      \* item accessor: the buckets received, by BucketKey
    trips,      \* history: the set of BucketKeys of every backend round trip
    rounds,     \* history: rounds run by the current (or last) Execute
    drained,    \* history: TRUE once some handle has returned
    pure        \* the last application of a pure function: its input, its output

vars == <<calls, nextCalls, running, executing, resolver, pending, store,
          trips, rounds, drained, pure>>

\* BucketKey{RootKey, Hash, HashLen}
BucketKey(rootKey, hash, hashLen) ==
    [RootKey |-> rootKey, Hash |-> hash, HashLen |-> hashLen]

\* binary.BigEndian.PutUint64(data[:], v): the 8 bytes, most significant first
PutUint64(v) == [j \in 1..8 |-> ByteOf(v, j)]

HexDigits ==
    <<"0", "1", "2", "3", "4", "5", "6", "7", "8", "9", "a", "b", "c", "d",
      "e", "f">>

\* hex.EncodeToString(src): two lower-case digits per byte; a string is kept
\* as the sequence of its characters
EncodeToString(src) ==
    [i \in 1..(2 * Len(src)) |->
        IF i % 2 = 1 THEN HexDigits[(src[(i + 1) \div 2] \div 16) + 1]
        ELSE HexDigits[(src[i \div 2] % 16) + 1]]

\* RootKey.String(): the root key's text, kept as one piece
RootString(rootKey) == <<rootKey>>

\* BucketKey.String()
String_wholeHash(k) ==
    RootString(k.RootKey) \o <<":">> \o EncodeToString(PutUint64(k.Hash))

String(k) ==
    LET data == PutUint64(k.Hash)
    IN  RootString(k.RootKey) \o <<":">>
            \o EncodeToString(SubSeq(data, 1, k.HashLen))

\* bucketFiller(ctx, key): the arguments it calls the filler with
bucketFiller(key) == <<key.RootKey, key.Hash>>

\* no pure function is being applied on its own
NoCall == [op |-> "none"]

\* var result getResult[T]
ZeroResult == [resp |-> [Valid |-> FALSE, Data |-> NoItem], err |-> ErrNil]

\* the variables of one Get call; fetches, ran and early are history
NewCall_atDepth1(rootKey, key) ==
    [rootKey |-> rootKey, key |-> key, keyHash |-> KeyHash(key), hashLen |-> 1,
     rootBucketFn |-> BucketKey(rootKey, MaxUint64, -1), result |-> ZeroResult,
     fetches |-> <<>>, ran |-> 0, early |-> ~drained]

NewCall(rootKey, key) ==
    [rootKey |-> rootKey, key |-> key, keyHash |-> KeyHash(key), hashLen |-> 0,
     rootBucketFn |-> BucketKey(rootKey, MaxUint64, -1), result |-> ZeroResult,
     fetches |-> <<>>, ran |-> 0, early |-> ~drained]

\* the part of the state the closures of Get act on; asked collects which
\* parts of a bucket a continuation is the first to read
Current ==
    [calls |-> calls, nextCalls |-> nextCalls, pending |-> pending,
     store |-> store, trips |-> trips, asked |-> {}]

(* --------------------------- item accessor ----------------------------- *)
\* a bucket as received: its error, and the parts of it read so far
NewEntry(err) ==
    [err |-> err, bitOn |-> {}, bitOff |-> {}, read |-> FALSE, Items |-> <<>>]

\* bucketItem.Get(ctx, bk) for call c: queue the key unless the bucket is
\* already there, and hand back the deferred bucket
ItemGet(s, c, bk) ==
    [s EXCEPT !.calls[c].rootBucketFn = bk,
              !.calls[c].fetches = Append(@, bk),
              !.pending = IF bk \in DOMAIN s.store THEN @ ELSE @ \cup {bk}]

\* calling the deferred bucket of bk: when bk is still queued, everything
\* queued goes to the backend in one round trip; errs gives each fetch's error
BucketFn(s, bk, errs) ==
    IF bk \in s.pending
    THEN [s EXCEPT !.store = [k \in (DOMAIN s.store) \cup s.pending |->
                                 IF k \in DOMAIN s.store THEN s.store[k]
                                 ELSE NewEntry(errs[k])],
                   !.pending = {},
                   !.trips = Append(@, s.pending)]
    ELSE s

\* Bitset.GetBit(offset) on a received bucket; bit is the backend's value when
\* this bit has not been read before
GetBit(entry, offset, bit) ==
    IF offset \in entry.bitOn THEN TRUE
    ELSE IF offset \in entry.bitOff THEN FALSE
    ELSE bit

ObserveBit(s, bk, offset, v) ==
    [s EXCEPT !.store[bk].bitOn = IF v THEN @ \cup {offset} ELSE @,
              !.store[bk].bitOff = IF v THEN @ ELSE @ \cup {offset},
              !.asked = IF offset \in s.store[bk].bitOn \cup s.store[bk].bitOff
                        THEN @ ELSE @ \cup {"bit"}]

\* bucket.Items of a received bucket; items is the backend's value when the
\* list has not been read before
BucketItems(entry, items) == IF entry.read THEN entry.Items ELSE items

ObserveItems(s, bk, items) ==
    [s EXCEPT !.store[bk].read = TRUE, !.store[bk].Items = items,
              !.asked = IF s.store[bk].read THEN @ ELSE @ \cup {"items"}]

(* ------------------------------ session -------------------------------- *)
\* sess.AddNextCall(nextCallFn) of call c
AddNextCall(s, c) == [s EXCEPT !.nextCalls = Append(@, c)]

(* ------------------------------ Hash.Get ------------------------------- *)
\* doGetFn of call c
doGetFn_eager(s, c) ==
    LET call == s.calls[c]
        bk == BucketKey(call.rootKey,
                        computeHashAtLevel(call.keyHash, call.hashLen),
                        call.hashLen)
        s1 == ItemGet(s, c, bk)
    IN  AddNextCall(BucketFn(s1, bk, [k \in s1.pending |-> ErrNil]), c)

doGetFn_addTwice(s, c) ==
    LET call == s.calls[c]
        bk == BucketKey(call.rootKey,
                        computeHashAtLevel(call.keyHash, call.hashLen),
                        call.hashLen)
    IN  AddNextCall(AddNextCall(ItemGet(s, c, bk), c), c)

doGetFn_fullHash(s, c) ==
    LET call == s.calls[c]
        bk == BucketKey(call.rootKey, call.keyHash, call.hashLen)
    IN  AddNextCall(ItemGet(s, c, bk), c)

doGetFn(s, c) ==
    LET call == s.calls[c]
        bk == BucketKey(call.rootKey,
                        computeHashAtLevel(call.keyHash, call.hashLen),
                        call.hashLen)
    IN  AddNextCall(ItemGet(s, c, bk), c)

\* result.err = err; return
setError_shared(s, c, err) ==
    [s EXCEPT !.calls = [i \in DOMAIN s.calls |->
                            [s.calls[i] EXCEPT !.result.err = err]]]

setError(s, c, err) == [s EXCEPT !.calls[c].result.err = err]

\* the branch taken when the bit is set: hashLen++, the depth check, doGetFn
descend_gt(s, c) ==
    LET s1 == [s EXCEPT !.calls[c].hashLen = @ + 1]
    IN  IF s1.calls[c].hashLen > maxDeepLevels
        THEN setError(s1, c, ErrHashTooDeep)
        ELSE doGetFn(s1, c)

descend_noReturn(s, c) ==
    LET s1 == [s EXCEPT !.calls[c].hashLen = @ + 1]
    IN  IF s1.calls[c].hashLen >= maxDeepLevels
        THEN doGetFn(setError(s1, c, ErrHashTooDeep), c)
        ELSE doGetFn(s1, c)

descend_twice(s, c) ==
    LET s1 == [s EXCEPT !.calls[c].hashLen = @ + 1]
    IN  IF s1.calls[c].hashLen >= maxDeepLevels
        THEN setError(s1, c, ErrHashTooDeep)
        ELSE doGetFn(doGetFn(s1, c), c)

descend_noLimit(s, c) ==
    doGetFn([s EXCEPT !.calls[c].hashLen = @ + 1], c)

descend(s, c) ==
    LET s1 == [s EXCEPT !.calls[c].hashLen = @ + 1]
    IN  IF s1.calls[c].hashLen >= maxDeepLevels
        THEN setError(s1, c, ErrHashTooDeep)
        ELSE doGetFn(s1, c)

\* for _, bucketItem := range bucket.Items: the first item with the key
RECURSIVE rangeItems(_, _, _, _)
rangeItems(s, c, items, i) ==
    IF i > Len(items) THEN s
    ELSE IF getKey(items[i]) = s.calls[c].key
         THEN [s EXCEPT !.calls[c].result.resp =
                            [Valid |-> TRUE, Data |-> items[i]]]
         ELSE rangeItems(s, c, items, i + 1)

\* the same loop comparing the digests of the keys
RECURSIVE rangeItemsByHash(_, _, _, _)
rangeItemsByHash(s, c, items, i) ==
    IF i > Len(items) THEN s
    ELSE IF KeyHash(getKey(items[i])) = s.calls[c].keyHash
         THEN [s EXCEPT !.calls[c].result.resp =
                            [Valid |-> TRUE, Data |-> items[i]]]
         ELSE rangeItemsByHash(s, c, items, i + 1)

\* the same loop without the return at a match
RECURSIVE rangeItemsNoReturn(_, _, _, _)
rangeItemsNoReturn(s, c, items, i) ==
    IF i > Len(items) THEN s
    ELSE IF getKey(items[i]) = s.calls[c].key
         THEN rangeItemsNoReturn(
                  [s EXCEPT !.calls[c].result.resp =
                                [Valid |-> TRUE, Data |-> items[i]]],
                  c, items, i + 1)
         ELSE rangeItemsNoReturn(s, c, items, i + 1)

scanItems_lastMatch(s, c, items) == rangeItemsNoReturn(s, c, items, 1)

scanItems_byHash(s, c, items) == rangeItemsByHash(s, c, items, 1)

scanItems_fromSecond(s, c, items) == rangeItems(s, c, items, 2)

scanItems(s, c, items) == rangeItems(s, c, items, 1)

\* nextCallFn of call c; env holds what the backend answers to the reads
nextCallFn_ignoreErr(s, c, env) ==
    LET call == s.calls[c]
        bk == call.rootBucketFn
        s1 == BucketFn(s, bk, env.errs)
        failed == s1.store[bk].err # ErrNil
        bitOffset == computeBitOffsetAtNextLevel(call.keyHash, call.hashLen)
        bit == IF failed THEN FALSE ELSE GetBit(s1.store[bk], bitOffset, env.bit)
        s2 == IF failed THEN s1 ELSE ObserveBit(s1, bk, bitOffset, bit)
        items == IF failed THEN <<>> ELSE BucketItems(s2.store[bk], env.items)
    IN  IF bit THEN descend(s2, c)
        ELSE IF failed THEN scanItems(s2, c, items)
        ELSE scanItems(ObserveItems(s2, bk, items), c, items)

nextCallFn(s, c, env) ==
    LET call == s.calls[c]
        bk == call.rootBucketFn
        s1 == BucketFn(s, bk, env.errs)
        err == s1.store[bk].err
        bitOffset == computeBitOffsetAtNextLevel(call.keyHash, call.hashLen)
        bit == GetBit(s1.store[bk], bitOffset, env.bit)
        s2 == ObserveBit(s1, bk, bitOffset, bit)
        items == BucketItems(s2.store[bk], env.items)
    IN  IF err # ErrNil THEN setError(s1, c, err)
        ELSE IF bit THEN descend(s2, c)
        ELSE scanItems(ObserveItems(s2, bk, items), c, items)

(* ------------------------------ actions -------------------------------- *)
Init ==
    /\ calls = <<>>
    /\ nextCalls = <<>>
    /\ running = <<>>
    /\ executing = FALSE
    /\ resolver = 0
    /\ pending = {}
    /\ store = <<>>
    /\ trips = <<>>
    /\ rounds = 0
    /\ drained = FALSE
    /\ pure = NoCall

Apply(s) ==
    /\ calls' = s.calls
    /\ nextCalls' = s.nextCalls
    /\ pending' = s.pending
    /\ store' = s.store
    /\ trips' = s.trips

\* h.Get(ctx, rootKey, key): set up the closures, doGetFn(), return the handle
Get(rootKey, key) ==
    /\ ~executing
    /\ Len(calls) < MaxCalls
    /\ LET c == Len(calls) + 1
           s == [Current EXCEPT !.calls = Append(@, NewCall(rootKey, key))]
       IN  Apply(doGetFn(s, c))
    /\ UNCHANGED <<running, executing, resolver, rounds, drained, pure>>

\* the handle of call c is called: h.sess.Execute() starts
ExecuteBegin_restart(c) ==
    /\ ~executing
    /\ c \in 1..Len(calls)
    /\ executing' = TRUE
    /\ resolver' = c
    /\ rounds' = 0
    /\ Apply(doGetFn(Current, c))
    /\ UNCHANGED <<running, drained, pure>>

ExecuteBegin(c) ==
    /\ ~executing
    /\ c \in 1..Len(calls)
    /\ executing' = TRUE
    /\ resolver' = c
    /\ rounds' = 0
    /\ UNCHANGED <<calls, nextCalls, running, pending, store, trips, drained,
                   pure>>

\* Execute: take the continuations queued so far as the next round
RoundBegin ==
    /\ executing
    /\ running = <<>>
    /\ nextCalls # <<>>
    /\ running' = nextCalls
    /\ nextCalls' = <<>>
    /\ rounds' = rounds + 1
    /\ UNCHANGED <<calls, executing, resolver, pending, store, trips, drained,
                   pure>>

\* the backend's answers are drawn for the reads the continuation makes
BitAnswers(s, c, errs) ==
    IF "bit" \in nextCallFn(s, c, [errs |-> errs, bit |-> FALSE,
                                   items |-> <<>>]).asked
    THEN BOOLEAN ELSE {FALSE}

ItemsAnswers(s, c, errs, bit) ==
    IF "items" \in nextCallFn(s, c, [errs |-> errs, bit |-> bit,
                                     items |-> <<>>]).asked
    THEN ItemSeqs ELSE {<<>>}

\* Execute: run the next continuation of the round
RunNextCall ==
    /\ executing
    /\ running # <<>>
    /\ LET c == Head(running)
           s == [Current EXCEPT !.calls[c].ran = @ + 1]
       IN  \E errs \in [pending -> {ErrNil, ErrBackend}] :
           \E bit \in BitAnswers(s, c, errs) :
           \E items \in ItemsAnswers(s, c, errs, bit) :
               Apply(nextCallFn(s, c, [errs |-> errs, bit |-> bit,
                                       items |-> items]))
    /\ running' = Tail(running)
    /\ UNCHANGED <<executing, resolver, rounds, drained, pure>>

\* Execute has returned and the handle of call c is at its return statement
Returning(c) ==
    executing /\ resolver = c /\ running = <<>> /\ nextCalls = <<>>

\* what the handle of call c returns there: result.resp, result.err
Returned(c) == calls[c].result

\* Execute returns, and the handle returns Returned(resolver)
ExecuteEnd ==
    /\ executing
    /\ running = <<>>
    /\ nextCalls = <<>>
    /\ executing' = FALSE
    /\ resolver' = 0
    /\ drained' = TRUE
    /\ UNCHANGED <<calls, nextCalls, running, pending, store, trips, rounds,
                   pure>>

Next ==
    \/ \E r \in Roots, k \in Keys : Get(r, k)
    \/ \E c \in 1..MaxCalls : ExecuteBegin(c)
    \/ RoundBegin
    \/ RunNextCall
    \/ ExecuteEnd

Spec == Init /\ [][Next]_vars

(* ---------------- the pure functions applied on their own -------------- *)
\* largest depth argument given to the arithmetic (the smallest is -1)
MaxDepthArg == 8
\* longest Items list of the bucket a continuation is run on
MaxScanItems == 3

\* digests: every byte is 0x00 or 0xa5
ByteVals == {0, 165}

Hashes == [1..8 -> ByteVals]

DepthArgs == (-1)..MaxDepthArg

\* the depths of the buckets Get may ask for
Depths == 0..(maxDeepLevels - 1)

progVars == <<calls, nextCalls, running, executing, resolver, pending, store,
              trips, rounds, drained>>

\* a digest is given; no Get call is made
PureInit ==
    /\ calls = <<>>
    /\ nextCalls = <<>>
    /\ running = <<>>
    /\ executing = FALSE
    /\ resolver = 0
    /\ pending = {}
    /\ store = <<>>
    /\ trips = <<>>
    /\ rounds = 0
    /\ drained = FALSE
    /\ pure \in {[op |-> "input", hash |-> h] : h \in Hashes}

\* computeHashAtLevel(hash, hashLen)
ApplyHashAtLevel(hashLen) ==
    /\ pure.op = "input"
    /\ pure' = [op |-> "computeHashAtLevel", hash |-> pure.hash,
                hashLen |-> hashLen,
                out |-> computeHashAtLevel(pure.hash, hashLen)]
    /\ UNCHANGED progVars

\* computeBitOffsetAtNextLevel(hash, currentHashLen)
ApplyBitOffset(currentHashLen) ==
    /\ pure.op = "input"
    /\ pure' = [op |-> "computeBitOffsetAtNextLevel", hash |-> pure.hash,
                currentHashLen |-> currentHashLen,
                out |-> computeBitOffsetAtNextLevel(pure.hash, currentHashLen)]
    /\ UNCHANGED progVars

\* one level of the descent of Get at depth hashLen: the Hash of the bucket
\* asked for by doGetFn, the bit offset nextCallFn tests in it, and, after
\* hashLen++, the Hash of the bucket doGetFn asks for next
ApplyDescend(hashLen) ==
    /\ pure.op = "input"
    /\ hashLen + 1 < maxDeepLevels
    /\ pure' = [op |-> "descend", hash |-> pure.hash, hashLen |-> hashLen,
                parent |-> computeHashAtLevel(pure.hash, hashLen),
                bitOffset |-> computeBitOffsetAtNextLevel(pure.hash, hashLen),
                child |-> computeHashAtLevel(pure.hash, hashLen + 1)]
    /\ UNCHANGED progVars

\* the Hash values of the second BucketKey rendered beside one of hash h
OtherHashes(h) ==
    {h, KeyHash("KA"), KeyHash("KC"), [j \in 1..8 |-> IF j <= 2 THEN h[j] ELSE 0]}

\* a.String() and b.String() of two BucketKeys
ApplyString(a, b) ==
    /\ pure.op = "input"
    /\ pure' = [op |-> "String", hash |-> pure.hash, a |-> a, b |-> b,
                sa |-> String(a), sb |-> String(b)]
    /\ UNCHANGED progVars

ScanSeqs == UNION {[1..n -> Items] : n \in 0..MaxScanItems}

\* nextCallFn of a call for key whose root bucket has arrived without error,
\* with the branch bit of the key unset and the given Items
ApplyTerminalBucket(rootKey, key, items) ==
    /\ pure.op = "input"
    /\ LET bk == BucketKey(rootKey, computeHashAtLevel(KeyHash(key), 0), 0)
           call == [NewCall(rootKey, key) EXCEPT !.rootBucketFn = bk,
                                                 !.fetches = <<bk>>]
           bucket == [err |-> ErrNil, bitOn |-> {},
                      bitOff |-> {computeBitOffsetAtNextLevel(KeyHash(key), 0)},
                      read |-> TRUE, Items |-> items]
           s == [calls |-> <<call>>, nextCalls |-> <<>>, pending |-> {},
                 store |-> [k \in {bk} |-> bucket], trips |-> <<>>,
                 asked |-> {}]
           env == [errs |-> <<>>, bit |-> FALSE, items |-> <<>>]
       IN  pure' = [op |-> "nextCallFn", hash |-> pure.hash, key |-> key,
                    items |-> items,
                    result |-> nextCallFn(s, 1, env).calls[1].result]
    /\ UNCHANGED progVars

PureNext ==
    \/ \E hashLen \in DepthArgs : ApplyHashAtLevel(hashLen)
    \/ \E currentHashLen \in DepthArgs : ApplyBitOffset(currentHashLen)
    \/ \E hashLen \in Depths : ApplyDescend(hashLen)
    \/ \E r \in Roots, la, lb \in Depths, hb \in OtherHashes(pure.hash) :
           ApplyString(BucketKey(r, pure.hash, la), BucketKey(r, hb, lb))
    \/ \E r \in Roots, k \in Keys, items \in ScanSeqs :
           ApplyTerminalBucket(r, k, items)

PureSpec == PureInit /\ [][PureNext]_vars

(* ------------------------ vocabulary of the claims --------------------- *)
CallIds == 1..Len(calls)

\* hash with its top k bytes kept and the other bits cleared
TopBytes(hash, k) == [j \in 1..8 |-> IF j <= k THEN hash[j] ELSE 0]

\* byte k (0..7) of the big-endian encoding of hash
ByteAt(hash, k) == hash[k + 1]

\* the bucket of depth k on the path of call c, and the bit tested in it
PathKey(c, k) == BucketKey(calls[c].rootKey, TopBytes(calls[c].keyHash, k), k)

PathBit(c, k) == ByteAt(calls[c].keyHash, k)

\* what has been received for the depth-k bucket of call c
NotFetched == [err |-> "not fetched", bitOn |-> {}, bitOff |-> {}]

PathEntry(c, k) ==
    LET bk == PathKey(c, k)
    IN  IF bk \in DOMAIN store THEN store[bk] ELSE NotFetched

\* the fetch of the depth-k bucket of call c succeeded / failed
FetchOk(c, k) == PathEntry(c, k).err = ErrNil

FetchFailed(c, k) == PathEntry(c, k).err \notin {ErrNil, NotFetched.err}

\* the branch bit of call c in its depth-k bucket is set / unset
BitSetAt(c, k) ==
    LET e == PathEntry(c, k) IN e.err = ErrNil /\ PathBit(c, k) \in e.bitOn

BitUnsetAt(c, k) ==
    LET e == PathEntry(c, k) IN e.err = ErrNil /\ PathBit(c, k) \in e.bitOff

\* the number of leading depths, from depth k on, whose branch bit is set
RECURSIVE SetDepths(_, _)
SetDepths(c, k) ==
    IF k < maxDeepLevels /\ BitSetAt(c, k) THEN SetDepths(c, k + 1) ELSE k

\* the depth of the first bucket on the path of call c whose bit is not set
TerminalDepth(c) == SetDepths(c, 0)

\* the descent of call c: bit set at depths 0..d-1, unset at depth d
TerminalAt(c, d) == TerminalDepth(c) = d /\ BitUnsetAt(c, d)

\* the Items of the terminal bucket, once read
TerminalItems(c, d) == store[PathKey(c, d)].Items

Matches(c, items) == {i \in 1..Len(items) : getKey(items[i]) = calls[c].key}

\* no continuation of call c is queued: its descent has stopped
Finished(c) ==
    /\ \A i \in 1..Len(nextCalls) : nextCalls[i] # c
    /\ \A i \in 1..Len(running) : running[i] # c

(* ------------------------------- claims -------------------------------- *)
\* C1: a Get whose descent finds the branch bit set at depths 0..d-1 and
\* unset at depth d, every fetch succeeding, asks the item accessor for exactly
\* d+1 buckets: BucketKey{rootKey, prefixAtDepth(digest, k), k} for k = 0..d,
\* in this order, and for no other (counted when its handle returns).
C1_FetchesAlongPath ==
    \A c \in CallIds :
        /\ \A i \in 1..Len(calls[c].fetches) :
               calls[c].fetches[i] = PathKey(c, i - 1)
        /\ Returning(c) =>
               LET d == TerminalDepth(c)
               IN  (d \in Depths /\ TerminalAt(c, d))
                       => Len(calls[c].fetches) = d + 1

\* one split: two fetches
C1_Witness ==
    \E c \in CallIds :
        Returning(c) /\ TerminalAt(c, 1) /\ Len(calls[c].fetches) = 2

\* C2: when the terminal bucket of the descent holds an item whose key equals
\* the query key, the handle returns Valid=true, such an item as Data, and a
\* nil error.
C2_FoundInTerminal ==
    \A c \in CallIds :
        Returning(c) =>
            LET d == TerminalDepth(c)
            IN  (d \in Depths /\ TerminalAt(c, d) /\ store[PathKey(c, d)].read
                    /\ Matches(c, TerminalItems(c, d)) # {})
                => /\ Returned(c).resp.Valid
                   /\ \E i \in Matches(c, TerminalItems(c, d)) :
                          Returned(c).resp.Data = TerminalItems(c, d)[i]
                   /\ Returned(c).err = ErrNil

C2_Witness ==
    \E c \in CallIds :
        /\ Returning(c) /\ TerminalAt(c, 2) /\ store[PathKey(c, 2)].read
        /\ Matches(c, TerminalItems(c, 2)) # {}
        /\ Returned(c).resp.Valid

\* C3: when every fetch of the descent succeeds and the terminal bucket holds
\* no item whose key equals the query key, the handle returns Valid=false and
\* a nil error.
C3_AbsentIsNotAnError ==
    \A c \in CallIds :
        Returning(c) =>
            LET d == TerminalDepth(c)
            IN  (d \in Depths /\ TerminalAt(c, d) /\ store[PathKey(c, d)].read
                    /\ Matches(c, TerminalItems(c, d)) = {})
                => Returned(c) = ZeroResult

\* absent although the bucket holds an item of another key
C3_Witness ==
    \E c \in CallIds :
        /\ Returning(c) /\ TerminalAt(c, 1) /\ store[PathKey(c, 1)].read
        /\ Len(TerminalItems(c, 1)) > 0
        /\ Matches(c, TerminalItems(c, 1)) = {}
        /\ Returned(c) = ZeroResult

\* C4: when the buckets of depths 0..4 on the path all have the branch bit
\* set, the handle returns ErrHashTooDeep with Valid=false, and no bucket with
\* HashLen >= 5 is ever asked for.
C4_TooDeep ==
    \A c \in CallIds :
        /\ \A i \in 1..Len(calls[c].fetches) :
               calls[c].fetches[i].HashLen < maxDeepLevels
        /\ (Returning(c) /\ TerminalDepth(c) = maxDeepLevels)
           => /\ Returned(c).err = ErrHashTooDeep
              /\ ~Returned(c).resp.Valid

C4_Witness ==
    \E c \in CallIds :
        /\ Returning(c) /\ \A k \in Depths : BitSetAt(c, k)
        /\ TerminalDepth(c) = maxDeepLevels
        /\ Returned(c).err = ErrHashTooDeep
        /\ Len(calls[c].fetches) = maxDeepLevels

\* C5: when the fetch of depth d fails, the call ends with exactly that error
\* and Valid=false, and asks for no bucket deeper than d.
C5_FetchErrorStops ==
    \A c \in CallIds : \A d \in Depths :
        (calls[c].ran > d /\ Len(calls[c].fetches) > d
            /\ calls[c].fetches[d + 1] \in DOMAIN store
            /\ store[calls[c].fetches[d + 1]].err # ErrNil)
        => /\ calls[c].result.err = store[calls[c].fetches[d + 1]].err
           /\ ~calls[c].result.resp.Valid
           /\ Len(calls[c].fetches) = d + 1
           /\ Finished(c)

\* the fetch at depth 1 fails and the handle returns the error
C5_Witness ==
    \E c \in CallIds :
        /\ Returning(c) /\ FetchFailed(c, 1)
        /\ Returned(c).err = ErrBackend
        /\ Len(calls[c].fetches) = 2

\* the outcomes of a Get call
Found(r) == r.resp.Valid /\ r.err = ErrNil

Absent(r) == ~r.resp.Valid /\ r.err = ErrNil

Failed(r) == ~r.resp.Valid /\ r.err # ErrNil

\* C6: the result slot of a call is never a mix: Valid=true never comes with
\* a non-nil error, and what a handle returns is one of found, absent, error.
C6_NeverAMix ==
    \A c \in CallIds :
        /\ ~(calls[c].result.resp.Valid /\ calls[c].result.err # ErrNil)
        /\ ~calls[c].result.resp.Valid => calls[c].result.resp.Data = NoItem
        /\ Returning(c) =>
               Cardinality({o \in {"found", "absent", "error"} :
                   \/ o = "found" /\ Found(Returned(c))
                   \/ o = "absent" /\ Absent(Returned(c))
                   \/ o = "error" /\ Failed(Returned(c))}) = 1

\* one drain ends with a call found and a call failed
C6_Witness ==
    \E c1, c2 \in CallIds :
        /\ Returning(c1)
        /\ Found(calls[c1].result)
        /\ Failed(calls[c2].result)

\* number of backend round trips that carried bk
BackendFetches(bk) == Cardinality({i \in 1..Len(trips) : bk \in trips[i]})

\* C7: two Get calls on one session, both registered before it drains, with
\* the same root key and both needing the depth-0 bucket only, cause exactly
\* one backend fetch of the root BucketKey.
C7_RootFetchedOnce ==
    \A c1, c2 \in CallIds :
        (/\ c1 # c2
         /\ calls[c1].early /\ calls[c2].early
         /\ calls[c1].rootKey = calls[c2].rootKey
         /\ Finished(c1) /\ Len(calls[c1].fetches) = 1
         /\ Finished(c2) /\ Len(calls[c2].fetches) = 1)
        => BackendFetches(PathKey(c1, 0)) = 1

\* two calls for keys of different digests, both served by the root bucket
C7_Witness ==
    \E c1, c2 \in CallIds :
        /\ c1 # c2
        /\ calls[c1].early /\ calls[c2].early
        /\ calls[c1].keyHash # calls[c2].keyHash
        /\ Finished(c1) /\ Len(calls[c1].fetches) = 1
        /\ Finished(c2) /\ Len(calls[c2].fetches) = 1
        /\ BackendFetches(PathKey(c1, 0)) = 1

AllEarly == \A c \in CallIds : calls[c].early

\* the largest number of depths a call has descended
MaxFetches ==
    IF CallIds = {} THEN 0
    ELSE CHOOSE n \in {Len(calls[c].fetches) : c \in CallIds} :
             \A c \in CallIds : Len(calls[c].fetches) <= n

\* C8: for Get calls all registered before the session drains, the fetches of
\* one round (one depth) go in one backend round trip: round trip i carries
\* the depth i-1 buckets of all calls, and the drain takes as many round trips
\* as the deepest call has depths.
C8_OneTripPerRound ==
    AllEarly =>
        /\ \A i \in 1..Len(trips) : \A bk \in trips[i] : bk.HashLen = i - 1
        /\ \A c \in CallIds : \A i \in 1..calls[c].ran :
               i <= Len(trips) /\ calls[c].fetches[i] \in trips[i]
        /\ (\A c \in CallIds : Finished(c)) => Len(trips) = MaxFetches

\* two calls of different branches, five round trips for ten fetches
C8_Witness ==
    /\ Len(calls) = 2 /\ AllEarly
    /\ \A c \in CallIds : Finished(c) /\ Len(calls[c].fetches) = maxDeepLevels
    /\ Len(trips) = maxDeepLevels
    /\ Cardinality(trips[maxDeepLevels]) = 2

\* number of queued continuations of call c
Queued(c) ==
    Cardinality({i \in 1..Len(nextCalls) : nextCalls[i] = c})
    + Cardinality({i \in 1..Len(running) : running[i] = c})

\* C9: a call asks for its depth d+1 bucket only after its own depth-d
\* continuation has run and read the depth-d bucket; it never has more than
\* one fetch outstanding nor more than one continuation queued.
C9_OneStepAtATime ==
    \A c \in CallIds :
        /\ Queued(c) <= 1
        /\ Len(calls[c].fetches) = calls[c].ran + Queued(c)
        /\ \A i \in 1..(Len(calls[c].fetches) - 1) :
               /\ calls[c].fetches[i] \in DOMAIN store
               /\ store[calls[c].fetches[i]].err = ErrNil
               /\ PathBit(c, i - 1) \in store[calls[c].fetches[i]].bitOn

\* mid-round: one call has already asked for its next bucket, the other has
\* its continuation of this round still queued
C9_Witness ==
    \E c1, c2 \in CallIds :
        /\ executing
        /\ Queued(c1) = 1 /\ Len(calls[c1].fetches) = 3 /\ calls[c1].ran = 2
        /\ Queued(c2) = 1 /\ Len(calls[c2].fetches) = 2 /\ calls[c2].ran = 1

\* a call has reached a stop condition: an error, or its terminal bucket read
Stopped(c) ==
    \/ calls[c].result.err # ErrNil
    \/ LET d == TerminalDepth(c)
       IN  d \in Depths /\ TerminalAt(c, d) /\ store[PathKey(c, d)].read

C10_Bounded ==
    /\ rounds <= maxDeepLevels
    /\ \A c \in CallIds : Len(calls[c].fetches) <= maxDeepLevels
    /\ \A r \in CallIds : Returning(r) =>
           \A c \in CallIds : Finished(c) /\ Stopped(c)

\* what is left of a drain: the rounds not yet begun, each of at most one
\* continuation per call, and the continuations left in the running round
DrainMeasure ==
    (maxDeepLevels - rounds) * (Len(calls) + 1) + Len(running)

\* every step of Execute ends the drain or brings it nearer to its end
DrainProgress ==
    executing => (~executing' \/ (DrainMeasure' < DrainMeasure /\ DrainMeasure' >= 0))

\* C10: resolving a handle terminates: every step of the drain decreases a
\* bounded measure, the drain takes at most 5 rounds and ends with no
\* continuation pending and every call at a stop condition (found, absent or
\* error), and no call asks for more than 5 buckets.
C10_Terminates == [](C10_Bounded) /\ [][DrainProgress]_vars

\* a drain of five rounds at its end
C10_Witness ==
    \E r \in CallIds :
        /\ Returning(r) /\ rounds = maxDeepLevels
        /\ \A c \in CallIds : Stopped(c)

\* the last pure function applied
Applied(op) == pure.op = op

Zero64 == [j \in 1..8 |-> 0]

\* C12: for every 64-bit hash and every depth in [0, maxDeepLevels),
\* computeHashAtLevel(hash, depth) is hash with its top 8*depth bits kept and
\* all lower bits cleared; at depth 0 it is 0 for every hash.
C12_PrefixOfHash ==
    (Applied("computeHashAtLevel") /\ pure.hashLen \in Depths) =>
        /\ pure.out = TopBytes(pure.hash, pure.hashLen)
        /\ \A j \in 1..8 :
               pure.out[j] = IF j <= pure.hashLen THEN pure.hash[j] ELSE 0
        /\ pure.hashLen = 0 => pure.out = Zero64

\* depth 0 of a digest with no zero byte
C12_Witness ==
    /\ Applied("computeHashAtLevel")
    /\ pure.hashLen = 0
    /\ \A j \in 1..8 : pure.hash[j] = 165
    /\ pure.out = Zero64

\* C13: for every hash and every depth d in [0,4), the byte
\* computeBitOffsetAtNextLevel(hash, d) tested against the depth-d bucket's
\* bitset is byte d (big-endian) of computeHashAtLevel(hash, d+1), the Hash of
\* the child BucketKey at HashLen d+1, and the first d bytes of the child's
\* Hash are the parent's computeHashAtLevel(hash, d).
C13_ChildEmbedsTestedByte ==
    Applied("descend") =>
        /\ pure.hashLen \in 0..3
        /\ pure.bitOffset = ByteAt(pure.child, pure.hashLen)
        /\ TopBytes(pure.child, pure.hashLen) = pure.parent
        /\ \A j \in 1..pure.hashLen : pure.child[j] = pure.parent[j]

\* from depth 3 to depth 4 on a byte 0xa5 followed by a byte 0xa5
C13_Witness ==
    /\ Applied("descend")
    /\ pure.hashLen = 3
    /\ pure.hash[4] = 165 /\ pure.hash[5] = 165
    /\ pure.bitOffset = 165
    /\ pure.child[4] = 165 /\ pure.child[5] = 0
    /\ pure.parent[3] = pure.hash[3] /\ pure.parent[4] = 0

\* C14: for the same root key, two BucketKeys of different HashLen (both in
\* [0,5)) never render to the same string, whatever their Hash values; two
\* BucketKeys of the same root and HashLen render identically exactly when
\* their top HashLen hash bytes are equal.
C14_StringInjective ==
    (Applied("String") /\ pure.a.RootKey = pure.b.RootKey
        /\ pure.a.HashLen \in Depths /\ pure.b.HashLen \in Depths) =>
        /\ pure.a.HashLen # pure.b.HashLen => pure.sa # pure.sb
        /\ pure.a.HashLen = pure.b.HashLen =>
               ((pure.sa = pure.sb)
                   <=> (TopBytes(pure.a.Hash, pure.a.HashLen)
                            = TopBytes(pure.b.Hash, pure.b.HashLen)))

\* the root bucket beside the depth-1 bucket of a digest of first byte zero
C14_Witness ==
    /\ Applied("String")
    /\ pure.a = BucketKey("r1", Zero64, 0)
    /\ pure.b = BucketKey("r1", Zero64, 1)
    /\ pure.sa = <<"r1", ":">>
    /\ pure.sb = <<"r1", ":", "0", "0">>

\* C15: every BucketKey Get passes to the item accessor has 0 <= HashLen < 5
\* and all Hash bytes below its top HashLen bytes zero; the first BucketKey
\* of every Get call is {rootKey, Hash = 0, HashLen = 0}, whatever the key.
C15_BucketKeyInvariant ==
    \A c \in CallIds :
        /\ Len(calls[c].fetches) >= 1
        /\ calls[c].fetches[1] = BucketKey(calls[c].rootKey, Zero64, 0)
        /\ \A i \in 1..Len(calls[c].fetches) :
               LET bk == calls[c].fetches[i]
               IN  /\ bk.HashLen >= 0 /\ bk.HashLen < maxDeepLevels
                   /\ bk.Hash = TopBytes(bk.Hash, bk.HashLen)

\* two calls for keys of different digests have asked for the same first
\* BucketKey, and one of them for its deepest bucket
C15_Witness ==
    \E c1, c2 \in CallIds :
        /\ calls[c1].keyHash # calls[c2].keyHash
        /\ calls[c1].fetches[1] = BucketKey("r1", Zero64, 0)
        /\ calls[c2].fetches[1] = BucketKey("r1", Zero64, 0)
        /\ Len(calls[c1].fetches) = maxDeepLevels
        /\ calls[c1].fetches[maxDeepLevels]
               = BucketKey("r1", <<1, 2, 3, 4, 0, 0, 0, 0>>, 4)

\* the positions of the items of the scanned bucket whose key is the query key
ScanMatches == {i \in 1..Len(pure.items) : getKey(pure.items[i]) = pure.key}

\* C16: when the terminal bucket holds several items, Get returns the first
\* item in storage order whose key equals the query key: later items of an
\* equal key are ignored, and items of a different key with the same digest
\* (or the same hash prefix) are skipped and never returned.
C16_FirstMatchWins ==
    Applied("nextCallFn") =>
        /\ pure.result.err = ErrNil
        /\ ScanMatches = {} => pure.result = ZeroResult
        /\ ScanMatches # {} =>
               /\ pure.result.resp.Valid
               /\ \E i \in ScanMatches :
                      /\ \A j \in ScanMatches : i <= j
                      /\ pure.result.resp.Data = pure.items[i]
        /\ pure.result.resp.Valid => getKey(pure.result.resp.Data) = pure.key

\* an item of another key with the same digest, then two items of the key
C16_Witness ==
    /\ Applied("nextCallFn")
    /\ pure.key = "KA"
    /\ pure.items = <<[key |-> "KB", val |-> 1], [key |-> "KA", val |-> 2],
                      [key |-> "KA", val |-> 1]>>
    /\ KeyHash("KB") = KeyHash("KA")
    /\ pure.result.resp = [Valid |-> TRUE, Data |-> [key |-> "KA", val |-> 2]]

\* a call none of whose continuations has run
C17_Unresolved ==
    \A c \in CallIds :
        calls[c].ran = 0 =>
            /\ Len(calls[c].fetches) = 1
            /\ calls[c].fetches[1].HashLen = 0
            /\ Queued(c) = 1
            /\ calls[c].hashLen = 0
            /\ calls[c].result = ZeroResult

\* outside Execute nothing runs: a step leaves every registered call, the
\* buckets received and the round trips as they are, and a Get registers a
\* call none of whose continuations has run
C17_WorkOnlyInExecute ==
    /\ ~executing =>
           /\ \A c \in CallIds : calls'[c] = calls[c]
           /\ store' = store
           /\ trips' = trips
    /\ Len(calls') > Len(calls) =>
           /\ ~executing'
           /\ calls'[Len(calls')].ran = 0
           /\ nextCalls' = Append(nextCalls, Len(calls'))

\* C17: a call to Get, before its handle is resolved, has requested exactly
\* one fetch (the depth-0 bucket), has enqueued exactly one continuation, has
\* run no continuation and has written nothing to its result slot; all
\* further work happens only once a handle sharing the session is resolved.
C17_GetOnlyRegisters == [](C17_Unresolved) /\ [][C17_WorkOnlyInExecute]_vars

\* two calls registered, no handle resolved yet
C17_Witness ==
    /\ Len(calls) = 2 /\ ~executing /\ ~drained
    /\ \A c \in CallIds :
           /\ calls[c].ran = 0 /\ Len(calls[c].fetches) = 1
           /\ calls[c].result = ZeroResult
    /\ nextCalls = <<1, 2>>
    /\ pending = {BucketKey("r1", Zero64, 0)}
    /\ trips = <<>> /\ store = <<>>

\* every continuation chain has ended
AllDrained ==
    /\ nextCalls = <<>> /\ running = <<>>
    /\ \A c \in CallIds : Finished(c)

\* when a handle returns, the rounds of every call of the session are drained
C18_DrainIsShared == \A r \in CallIds : Returning(r) => AllDrained

\* a call whose chain has ended is left as it is, result included; and while
\* every chain has ended, resolving a handle asks for no bucket, makes no
\* round trip and runs no continuation
C18_ComputedOnce ==
    /\ \A c \in CallIds : Finished(c) => calls'[c] = calls[c]
    /\ (AllDrained /\ Len(calls') = Len(calls)) =>
           /\ calls' = calls
           /\ nextCalls' = <<>> /\ running' = <<>>
           /\ pending' = pending /\ store' = store /\ trips' = trips

\* C18: resolving the handle of any one Get call drains the rounds of every
\* Get call of the session; each call's result is computed exactly once, so
\* resolving the same handle again, or another call's handle afterwards,
\* returns the same pair as the first resolution, issues no further fetch and
\* runs no further continuation.
C18_ResolveOnce == [](C18_DrainIsShared) /\ [][C18_ComputedOnce]_vars

\* a handle returns from a resolution that found nothing left to run, after
\* an earlier resolution computed both calls' results
C18_Witness ==
    \E r \in CallIds :
        /\ Returning(r) /\ drained /\ rounds = 0
        /\ Len(calls) = 2
        /\ \A c \in CallIds : calls[c].ran > 0 /\ calls[c].early
        /\ Found(Returned(r))

\* the Get call of c made alone on a session of its own, against the bucket
\* contents received so far
SoloStart(c) ==
    doGetFn([calls |-> <<NewCall(calls[c].rootKey, calls[c].key)>>,
             nextCalls |-> <<>>, pending |-> {}, store |-> store,
             trips |-> <<>>, asked |-> {}], 1)

\* its handle resolved: the continuations run until none is queued
RECURSIVE SoloRun(_)
SoloRun(s) ==
    IF s.nextCalls = <<>> THEN s.calls[1]
    ELSE SoloRun(nextCallFn([s EXCEPT !.nextCalls = Tail(@)], 1,
                            [errs |-> [k \in s.pending |-> ErrNil],
                             bit |-> FALSE, items |-> <<>>]))

\* what the handle of a call returns, and the sequence of BucketKeys the call
\* has asked for, are those it would have had alone
C19_SameAsAlone ==
    \A c \in CallIds : Returning(c) =>
        LET solo == SoloRun(SoloStart(c))
        IN  /\ Returned(c) = solo.result
            /\ calls[c].fetches = solo.fetches

\* the variables of a call change only in a step of its own continuation
C19_OwnStateOnly ==
    \A c \in CallIds :
        calls'[c] # calls[c] =>
            executing /\ running # <<>> /\ Head(running) = c

\* C19: Get calls sharing one session do not interfere: each call's outcome
\* and the sequence of BucketKeys it fetches are the same as if that call ran
\* alone against the same bucket contents, and the depth counter, the pending
\* bucket handle and the result slot of one call are never written by
\* another call's continuation.
C19_NoInterference == [](C19_SameAsAlone) /\ [][C19_OwnStateOnly]_vars

\* one drain: a call ends too deep, the other finds its item past depth 2
C19_Witness ==
    \E c1, c2 \in CallIds :
        /\ Returning(c1)
        /\ calls[c1].early /\ calls[c2].early
        /\ calls[c1].result.err = ErrHashTooDeep
        /\ Found(calls[c2].result)
        /\ Len(calls[c2].fetches) > 3

\* the BucketKeys of call c that went to the backend, where a cache miss
\* hands them to bucketFiller
SentToBackend(c) ==
    {i \in 1..Len(calls[c].fetches) :
        \E n \in 1..Len(trips) : calls[c].fetches[i] \in trips[n]}

\* C20: on a cache miss the filler is called with arguments (rootKey, hash
\* prefix) that identify the requested bucket: two distinct BucketKeys
\* requested during one descent (same root, different HashLen) never reach
\* the filler with the same (rootKey, hash) arguments.
C20_FillerArgsIdentifyBucket ==
    \A c \in CallIds : \A i, j \in SentToBackend(c) :
        calls[c].fetches[i] # calls[c].fetches[j]
            => bucketFiller(calls[c].fetches[i])
                   # bucketFiller(calls[c].fetches[j])

====
